---- MODULE Spec2Model ----
(***************************************************************************)
(* Model of the symfonia gateway session tasks                             *)
(* (src/src/gateway/gateway_task.rs): the inbound loop gateway_task, the   *)
(* error handler unwrap_event and the Inbox Processor process_inbox, run   *)
(* for several sessions against the shared connected-user store.           *)
(* Four smaller specifications cover what surrounds the sessions: the      *)
(* startup sequence of main() and Server::new / Server::start (StartSpec), *)
(* the locks of the registry (LockSpec), publishing to a role (RoleSpec)   *)
(* and the handshake of a new socket (HandshakeSpec).  Each specification  *)
(* moves its own variables only.                                           *)
(***************************************************************************)
EXTENDS Integers, Sequences, FiniteSets, TLC

\* ---------------------------------------------------------------- bounds
MaxFrames == 2      \* client frames / receive results delivered in a run
MaxEvents == 2      \* events published in a run
InboxCap == 1       \* capacity of a session's inbox broadcast channel
MaxAccepted == 2    \* connections the gateway listener accepts, requests the API serves
MaxRoleEvents == 2  \* events published to a role in a run

\* ------------------------------------------------------ program constants
CloseInternalError == 4000
CloseUnknownOpcode == 4001
CloseDecodeError == 4002

\* --------------------------------------------------------------- universe
Sessions == {"s1", "s2"}
Users == {"u1"}

\* The session whose client, socket and heartbeat handler misbehave in a run;
\* the other session is a well-behaved second device of the same user, whose
\* client stays silent.
Faulty == {"s1"}

\* user_id handed to gateway_task for each session.
Owner(s) == "u1"

\* What connection.receiver.recv() followed by Event::try_from yields.
\* "RecvErr" is message_result = Err(error); the Unexpected*/Other* kinds are
\* Err results of Event::try_from; the rest are decoded events.
EventKinds == {"Dispatch", "Heartbeat", "Identify"}
DecodeErrKinds == {"UnexpectedOpcode", "UnexpectedMessage", "OtherGatewayError", "OtherError"}
FrameKinds == EventKinds \cup DecodeErrKinds \cup {"RecvErr"}

VARIABLES
    gt,         \* gateway_task position: idle, start, loop, done, panicked
    pi,         \* process_inbox position: none, loop, done, panicked
    hb,         \* heartbeat handler of the session: none, alive, dead
    killN,      \* number of () values sent on the session's kill channel
    users,      \* store.users: user -> sessions registered under it
    inboxes,    \* store.inboxes: users that have an inbox sender
    inboxOpen,  \* the sender of the channel the session's inbox reads is alive
    inboxQ,     \* events waiting in process_inbox's inbox receiver
    lagged,     \* the inbox receiver was overrun: its next recv() is Err(Lagged)
    hbFwd,      \* heartbeats forwarded on heartbeat_send, by arrival number
    sockOk,     \* connection.sender still has a receiving end
    closeSent,  \* messages gateway_task handed to connection.sender.send, in order
    eventSent,  \* messages process_inbox handed to connection.sender.send, in order
    removals,   \* executions of the store removal per session
    nFrames,    \* frames delivered so far
    nEvents,    \* events published so far
    last_sequence_number, \* per session: the u64 behind gateway_task's Arc<Mutex<u64>>
    entry,      \* how the process was started: "main" (main.rs) or "server" (Server)
    pc,         \* where main() or Server::new / Server::start stand
    seeded,     \* outcome of init_role_user_map
    api,        \* the task running start_api
    gw,         \* the task running start_gateway
    proc,       \* the process
    accepted,   \* connections accepted by the gateway listener
    served,     \* requests served by the API listener
    lpc,        \* per task: where it stands with the registry's locks
    store_lock, \* behind store's lock: whether user_id has an entry in users, in inboxes
    roleIdx,    \* role_user_map: role -> users holding it
    rInbox,     \* per user: events a role publish put in the user's inbox
    rEv,        \* events published to roles so far
    conn        \* per accepted socket: its handshake state, close code and registry entry

sessVars == <<gt, pi, hb, killN, users, inboxes, inboxOpen, inboxQ, lagged, hbFwd,
              sockOk, closeSent, eventSent, removals, nFrames, nEvents,
              last_sequence_number>>
startVars == <<entry, pc, seeded, api, gw, proc, accepted, served>>
lockVars == <<lpc, store_lock>>
roleVars == <<roleIdx, rInbox, rEv>>
shakeVars == <<conn>>
vars == <<sessVars, startVars, lockVars, roleVars, shakeVars>>

\* ------------------------------------------------------------ helpers

\* Live receivers of the session's kill broadcast channel: each running task
\* owns one (connection.kill_receive and its clone in process_inbox).
KillReceivers(s) ==
    (IF gt[s] \in {"start", "loop"} THEN 1 ELSE 0) +
    (IF pi[s] = "loop" THEN 1 ELSE 0)

\* broadcast::Sender::send(()) is Ok iff at least one receiver is alive.
KillSendOk(s) == KillReceivers(s) > 0

\* connection.sender.send(msg) in gateway_task and unwrap_event, which ignore
\* the result: the message, the frame kind it was sent on and whether the
\* handler had already called kill_send.send when it handed the message over
\* (it never has: in every branch the call follows the send).
SenderSend(s, msg, why) ==
    Append(closeSent[s], [msg |-> msg, on |-> why, killed |-> FALSE])

\* connection.sender.send(msg) in process_inbox: the message and whether the
\* send returned Ok.
SenderSendResult(s, msg, ok) == Append(eventSent[s], [msg |-> msg, ok |-> ok])

\* The outcomes connection.sender.send can have for process_inbox: the
\* socket of a misbehaving session may be found gone at any write; once gone
\* it stays gone.
SocketUp(s) == IF s \in Faulty /\ sockOk[s] THEN {TRUE, FALSE} ELSE {sockOk[s]}

\* The outcomes heartbeat_send.send can have: Ok while the heartbeat handler
\* holds its receiver; the handler may be found gone at any send and stays
\* gone.
HandlerUp(s) == IF hb[s] = "alive" THEN {TRUE, FALSE} ELSE {FALSE}

\* broadcast::Sender::send on a receiver's view of the channel: never waits;
\* when the receiver already holds InboxCap values the oldest one is
\* overwritten.
EnqueueMutant(q, e) == IF Len(q) < InboxCap THEN Append(q, e) ELSE q
Enqueue(q, e) == IF Len(q) < InboxCap THEN Append(q, e) ELSE Append(Tail(q), e)

\* The sessions a publish to user u reaches: those whose process_inbox holds
\* a live receiver of u's inbox.
Subscribed(s, u) == Owner(s) = u /\ inboxOpen[s] /\ pi[s] = "loop"

\* The receiver misses a value when one is sent while it holds InboxCap.
Overrun(q) == Len(q) >= InboxCap

\* Variant of SequenceAfterSend that steps the counter back.
SequenceAfterSendMutant(n) == n - 1

\* What process_inbox does to last_sequence_number after a successful send:
\* the arm is `Ok(_) => ()`, the increase is a TODO, so the value stays.
SequenceAfterSend(n) == n

\* The event inbox.recv() yields and what stays queued after it.
InboxNext(q) == Head(q)
InboxRestMutant(q) == q
InboxRest(q) == Tail(q)

\* heartbeat_send.send(heartbeat): the handler receives heartbeats in the
\* order they are sent.
HeartbeatSendMutant(s, n) == <<n>> \o hbFwd[s]
HeartbeatSend(s, n) == Append(hbFwd[s], n)

Close(code) == [close |-> code]
DispatchMsg(e) == [event |-> e]

\* unwrap_event with the UnexpectedOpcode arm lost in the catch-all.
UnwrapCloseCodeMutant(k) ==
    CASE k = "UnexpectedMessage" -> CloseDecodeError
      [] OTHER -> CloseInternalError

\* Close code chosen by unwrap_event for each Err of Event::try_from.
UnwrapCloseCode(k) ==
    CASE k = "UnexpectedOpcode" -> CloseUnknownOpcode
      [] k = "UnexpectedMessage" -> CloseDecodeError
      [] OTHER -> CloseInternalError

\* Close code sent when heartbeat_send.send fails.
DeadHeartbeatCloseCode == CloseDecodeError

\* The Dispatch arm answering with the unknown-opcode close frame.
DispatchCloseCodeMutant == CloseUnknownOpcode

\* Close code sent when the client sends a Dispatch.
DispatchCloseCode == CloseDecodeError

\* Close code sent when connection.receiver.recv() returns Err.
RecvErrCloseCode == CloseInternalError

\* Keys removed from store.users / store.inboxes by the kill branch.
TeardownKeys(s) == {Owner(s)}

\* The ways the process is started, the outcomes of init_role_user_map and
\* the two listener tasks.
Entries == {"main", "server"}
SeedResults == {"ok", "failed"}
Services == {"api", "gw"}

\* `.expect("Failed to init role user map")`: startup goes on only after a
\* successful seeding.
SeedCheckedMutant(r) == TRUE
SeedChecked(r) == r = "ok"

\* A process that ends takes its running tasks with it.
StopTask(x) == IF x = "running" THEN "stopped" ELSE x

\* Tasks that use the registry's locks, and what a task can ask for: the
\* store's write side, the store's read side, the role_user_map.
Tasks == {"t1", "t2", "t3"}
LockOps == {"StoreW", "StoreR", "Role"}
Wanting(op) == CASE op = "StoreW" -> "wantStoreW"
                 [] op = "StoreR" -> "wantStoreR"
                 [] op = "Role" -> "wantRole"
Holding == {"inStoreW", "inStoreR", "inRole"}

\* Roles, the users that can hold them and the membership found in storage
\* at startup.
Roles == {"R"}
RoleUsers == {"A", "B", "C"}
SeededMembers(r) == {"A", "B"}
Deltas == {"added", "removed"}

\* update_role_membership's change to a role's member set.
ApplyDeltaMutant(members, u, d) == members \cup {u}
ApplyDelta(members, u, d) ==
    IF d = "added" THEN members \cup {u} ELSE members \ {u}

\* inboxes_for_role: the users whose inboxes a publish to role r reaches.
InboxesForRole(r) == roleIdx[r]

\* Sockets that go through the handshake, the frames a client can send before
\* it has identified, and the close code of a handshake violation (the
\* protocol description gives it a name and no number).
Conns == {"c1", "c2", "c3"}
HandshakeFrames == {"Identify", "Resume", "Heartbeat"}
HandshakeViolation == "handshake-violation"
ActiveCloseCodes == {CloseInternalError, CloseUnknownOpcode, CloseDecodeError}
NewConn == [st |-> "Connecting", close |-> "none", registered |-> FALSE,
            everRegistered |-> FALSE, earlyHeartbeat |-> FALSE]

Init ==
    /\ gt = [s \in Sessions |-> "idle"]
    /\ pi = [s \in Sessions |-> "none"]
    /\ hb = [s \in Sessions |-> "none"]
    /\ killN = [s \in Sessions |-> 0]
    /\ users = [u \in Users |-> {}]
    /\ inboxes = {}
    /\ inboxOpen = [s \in Sessions |-> FALSE]
    /\ inboxQ = [s \in Sessions |-> <<>>]
    /\ lagged = [s \in Sessions |-> FALSE]
    /\ hbFwd = [s \in Sessions |-> <<>>]
    /\ sockOk = [s \in Sessions |-> TRUE]
    /\ closeSent = [s \in Sessions |-> <<>>]
    /\ last_sequence_number = [s \in Sessions |-> 0]
    /\ eventSent = [s \in Sessions |-> <<>>]
    /\ removals = [s \in Sessions |-> 0]
    /\ nFrames = 0
    /\ nEvents = 0
    /\ entry = "none"
    /\ pc = "off"
    /\ seeded = "no"
    /\ api = "none"
    /\ gw = "none"
    /\ proc = "up"
    /\ accepted = 0
    /\ served = 0
    /\ lpc = [t \in Tasks |-> "idle"]
    /\ conn = [c \in Conns |-> NewConn]
    /\ store_lock = [users |-> TRUE, inboxes |-> TRUE]
    /\ roleIdx = [r \in Roles |-> SeededMembers(r)]
    /\ rInbox = [u \in RoleUsers |-> <<>>]
    /\ rEv = 0

\* ------------------------------------------------------------ environment

\* Successful handshake: the session is registered under its user, the
\* heartbeat handler is started and gateway_task is spawned.
Connect(s) ==
    /\ gt[s] = "idle"
    /\ gt' = [gt EXCEPT ![s] = "start"]
    /\ hb' = [hb EXCEPT ![s] = "alive"]
    /\ users' = [users EXCEPT ![Owner(s)] = @ \cup {s}]
    /\ inboxes' = inboxes \cup {Owner(s)}
    /\ inboxOpen' = [inboxOpen EXCEPT ![s] = TRUE]
    /\ UNCHANGED <<pi, killN, inboxQ, lagged, hbFwd, sockOk, closeSent, eventSent,
                   removals, nFrames, nEvents>>
    /\ UNCHANGED <<startVars, lockVars, roleVars, last_sequence_number, shakeVars>>

\* publish(user, event): resolves the user's inbox sender in the store and
\* broadcasts the event to every receiver subscribed to that channel.
Publish(u) ==
    /\ nEvents < MaxEvents
    /\ u \in inboxes
    /\ nEvents' = nEvents + 1
    /\ inboxQ' = [s \in Sessions |->
                    IF Subscribed(s, u)
                    THEN Enqueue(inboxQ[s], nEvents + 1)
                    ELSE inboxQ[s]]
    /\ lagged' = [s \in Sessions |->
                    IF Subscribed(s, u)
                    THEN lagged[s] \/ Overrun(inboxQ[s])
                    ELSE lagged[s]]
    /\ UNCHANGED <<gt, pi, hb, killN, users, inboxes, inboxOpen, hbFwd, sockOk,
                   closeSent, eventSent, removals, nFrames>>
    /\ UNCHANGED <<startVars, lockVars, roleVars, last_sequence_number, shakeVars>>

\* ------------------------------------------------------------ gateway_task

\* gateway_task up to the loop: spawns process_inbox with a clone of the
\* connection and a resubscribed inbox receiver.
GatewayStartMutant(s) ==
    /\ gt[s] = "start"
    /\ gt' = [gt EXCEPT ![s] = "loop"]
    /\ UNCHANGED <<pi, hb, killN, users, inboxes, inboxOpen, inboxQ, lagged, hbFwd, sockOk,
                   closeSent, eventSent, removals, nFrames, nEvents>>
    /\ UNCHANGED <<startVars, lockVars, roleVars, last_sequence_number, shakeVars>>

GatewayStart(s) ==
    /\ gt[s] = "start"
    /\ gt' = [gt EXCEPT ![s] = "loop"]
    /\ pi' = [pi EXCEPT ![s] = "loop"]
    /\ UNCHANGED <<hb, killN, users, inboxes, inboxOpen, inboxQ, lagged, hbFwd, sockOk,
                   closeSent, eventSent, removals, nFrames, nEvents>>
    /\ UNCHANGED <<startVars, lockVars, roleVars, last_sequence_number, shakeVars>>

\* select! branch connection.kill_receive.recv(): remove the user from the
\* store and return.  Removing the inbox entry drops the channel's sender, so
\* every receiver of that channel sees it closed once drained.
GatewayKill(s) ==
    /\ gt[s] = "loop"
    /\ killN[s] > 0
    /\ users' = [u \in Users |-> IF u \in TeardownKeys(s) THEN {} ELSE users[u]]
    /\ inboxes' = inboxes \ TeardownKeys(s)
    /\ inboxOpen' = [t \in Sessions |->
                        IF Owner(t) \in TeardownKeys(s) THEN FALSE ELSE inboxOpen[t]]
    /\ removals' = [removals EXCEPT ![s] = @ + 1]
    /\ gt' = [gt EXCEPT ![s] = "done"]
    /\ UNCHANGED <<pi, hb, killN, inboxQ, lagged, hbFwd, sockOk, closeSent, eventSent,
                   nFrames, nEvents>>
    /\ UNCHANGED <<startVars, lockVars, roleVars, last_sequence_number, shakeVars>>

\* Variant of CloseAndKill that raises the kill signal first and hands the
\* Close frame over afterwards.
CloseAndKillMutant(s, code, k) ==
    /\ IF KillSendOk(s)
       THEN /\ killN' = [killN EXCEPT ![s] = @ + 1]
            /\ gt' = gt
       ELSE /\ killN' = killN
            /\ gt' = [gt EXCEPT ![s] = "panicked"]
    /\ closeSent' = [closeSent EXCEPT ![s] =
            Append(@, [msg |-> Close(code), on |-> k, killed |-> TRUE])]

\* Close frame followed by kill_send.send(()).expect(..) in gateway_task: the
\* task goes on looping, or panics when the expect fails.
CloseAndKill(s, code, k) ==
    /\ closeSent' = [closeSent EXCEPT ![s] = SenderSend(s, Close(code), k)]
    /\ IF KillSendOk(s)
       THEN /\ killN' = [killN EXCEPT ![s] = @ + 1]
            /\ gt' = gt
       ELSE /\ killN' = killN
            /\ gt' = [gt EXCEPT ![s] = "panicked"]

\* unwrap_event on an Err: Close frame, kill_send, panic.
UnwrapEventErr(s, k) ==
    /\ closeSent' = [closeSent EXCEPT ![s] = SenderSend(s, Close(UnwrapCloseCode(k)), k)]
    /\ killN' = IF KillSendOk(s) THEN [killN EXCEPT ![s] = @ + 1] ELSE killN
    /\ gt' = [gt EXCEPT ![s] = "panicked"]

\* select! branch connection.receiver.recv(), with the whole match.
GatewayRecv(s) ==
    /\ gt[s] = "loop"
    /\ nFrames < MaxFrames
    /\ nFrames' = nFrames + 1
    /\ \E k \in FrameKinds :
       CASE k = "RecvErr" ->
                CloseAndKill(s, RecvErrCloseCode, k) /\ UNCHANGED <<hbFwd, hb>>
         [] k \in DecodeErrKinds ->
                UnwrapEventErr(s, k) /\ UNCHANGED <<hbFwd, hb>>
         [] k = "Dispatch" ->
                CloseAndKill(s, DispatchCloseCode, k) /\ UNCHANGED <<hbFwd, hb>>
         [] k = "Heartbeat" ->
                \E up \in HandlerUp(s) :
                    IF up
                    THEN /\ hbFwd' = [hbFwd EXCEPT ![s] = HeartbeatSend(s, nFrames + 1)]
                         /\ UNCHANGED <<closeSent, killN, gt, hb>>
                    ELSE /\ hb' = [hb EXCEPT ![s] = "dead"]
                         /\ CloseAndKill(s, DeadHeartbeatCloseCode, k)
                         /\ UNCHANGED hbFwd
         [] OTHER -> UNCHANGED <<closeSent, killN, gt, hbFwd, hb>>
    /\ UNCHANGED <<pi, users, inboxes, inboxOpen, inboxQ, lagged, sockOk, eventSent,
                   removals, nEvents>>
    /\ UNCHANGED <<startVars, lockVars, roleVars, last_sequence_number, shakeVars>>

\* ------------------------------------------------------------ process_inbox

\* The kill branch of process_inbox without its return.
InboxKillMutant(s) ==
    /\ pi[s] = "loop"
    /\ killN[s] > 0
    /\ UNCHANGED vars

\* select! branch connection.kill_receive.recv(): return.
InboxKill(s) ==
    /\ pi[s] = "loop"
    /\ killN[s] > 0
    /\ pi' = [pi EXCEPT ![s] = "done"]
    /\ inboxQ' = [inboxQ EXCEPT ![s] = <<>>]
    /\ UNCHANGED <<gt, hb, killN, users, inboxes, inboxOpen, lagged, hbFwd, sockOk,
                   closeSent, eventSent, removals, nFrames, nEvents>>
    /\ UNCHANGED <<startVars, lockVars, roleVars, last_sequence_number, shakeVars>>

\* What process_inbox does after a failed socket write: kill_send, then the
\* loop goes on.
AfterFailedWrite(s) ==
    IF KillSendOk(s)
    THEN /\ killN' = [killN EXCEPT ![s] = @ + 1]
         /\ pi' = pi
         /\ inboxQ' = [inboxQ EXCEPT ![s] = InboxRest(@)]
    ELSE /\ killN' = killN
         /\ pi' = [pi EXCEPT ![s] = "panicked"]
         /\ inboxQ' = [inboxQ EXCEPT ![s] = <<>>]

\* select! branch inbox.recv(), with the whole match.
InboxRecv(s) ==
    /\ pi[s] = "loop"
    /\ \/ /\ ~lagged[s]
          /\ inboxQ[s] # <<>>
          /\ \E ok \in SocketUp(s) :
                /\ sockOk' = [sockOk EXCEPT ![s] = ok]
                /\ eventSent' = [eventSent EXCEPT
                      ![s] = SenderSendResult(s, DispatchMsg(InboxNext(inboxQ[s])), ok)]
                /\ IF ok
                   THEN /\ inboxQ' = [inboxQ EXCEPT ![s] = InboxRest(@)]
                        /\ last_sequence_number' =
                              [last_sequence_number EXCEPT ![s] = SequenceAfterSend(@)]
                        /\ UNCHANGED <<killN, pi>>
                   ELSE AfterFailedWrite(s) /\ UNCHANGED last_sequence_number
       \/ /\ lagged[s] \/ (inboxQ[s] = <<>> /\ ~inboxOpen[s])
          /\ pi' = [pi EXCEPT ![s] = "done"]
          /\ inboxQ' = [inboxQ EXCEPT ![s] = <<>>]
          /\ UNCHANGED <<eventSent, killN, sockOk, last_sequence_number>>
    /\ UNCHANGED <<gt, hb, users, inboxes, inboxOpen, lagged, hbFwd, closeSent,
                   removals, nFrames, nEvents>>
    /\ UNCHANGED <<startVars, lockVars, roleVars, shakeVars>>

\* ---- startup: main() and Server::new / Server::start ----

\* The process starts through the binary's main() or through the Server type.
Launch(e) ==
    /\ entry = "none"
    /\ entry' = e
    /\ pc' = "seed"
    /\ UNCHANGED <<seeded, api, gw, proc, accepted, served>>
    /\ UNCHANGED <<sessVars, lockVars, roleVars, shakeVars>>

\* connected_users.init_role_user_map(&db).await.expect(..): on Err main()
\* panics and the process ends; Server::new panics and returns no Server.
Seed(r) ==
    /\ pc = "seed"
    /\ seeded' = r
    /\ IF SeedChecked(r)
       THEN pc' = "spawn" /\ UNCHANGED proc
       ELSE /\ pc' = "panicked"
            /\ proc' = IF entry = "main" THEN "exited" ELSE proc
    /\ UNCHANGED <<entry, api, gw, accepted, served>>
    /\ UNCHANGED <<sessVars, lockVars, roleVars, shakeVars>>

\* The two tokio::spawn calls: both tasks exist before the first await.
SpawnTasks ==
    /\ pc = "spawn"
    /\ api' = "running"
    /\ gw' = "running"
    /\ pc' = IF entry = "main" THEN "await_api" ELSE "join"
    /\ UNCHANGED <<entry, seeded, proc, accepted, served>>
    /\ UNCHANGED <<sessVars, lockVars, roleVars, shakeVars>>

\* start_api / start_gateway returns Err (the listener cannot bind or
\* fails); under Server::start the unwrap() turns it into a task panic.
ListenerFails(x) ==
    /\ proc = "up"
    /\ IF x = "api"
       THEN api = "running" /\ api' = "err" /\ UNCHANGED gw
       ELSE gw = "running" /\ gw' = "err" /\ UNCHANGED api
    /\ UNCHANGED <<entry, pc, seeded, proc, accepted, served>>
    /\ UNCHANGED <<sessVars, lockVars, roleVars, shakeVars>>

\* start_api / start_gateway returns Ok(()).
ListenerEnds(x) ==
    /\ proc = "up"
    /\ IF x = "api"
       THEN api = "running" /\ api' = "ok" /\ UNCHANGED gw
       ELSE gw = "running" /\ gw' = "ok" /\ UNCHANGED api
    /\ UNCHANGED <<entry, pc, seeded, proc, accepted, served>>
    /\ UNCHANGED <<sessVars, lockVars, roleVars, shakeVars>>

\* The running gateway listener accepts a connection.
Accept ==
    /\ proc = "up"
    /\ gw = "running"
    /\ accepted < MaxAccepted
    /\ accepted' = accepted + 1
    /\ UNCHANGED <<entry, pc, seeded, api, gw, proc, served>>
    /\ UNCHANGED <<sessVars, lockVars, roleVars, shakeVars>>

\* The running API listener serves a request.
Serve ==
    /\ proc = "up"
    /\ api = "running"
    /\ served < MaxAccepted
    /\ served' = served + 1
    /\ UNCHANGED <<entry, pc, seeded, api, gw, proc, accepted>>
    /\ UNCHANGED <<sessVars, lockVars, roleVars, shakeVars>>

\* main(): the first turn of `for task in tasks.iter_mut()` awaits the API
\* task; an Err ends the process through expect.
MainAwaitApi ==
    /\ pc = "await_api"
    /\ api \in {"err", "ok"}
    /\ IF api = "err"
       THEN /\ pc' = "panicked"
            /\ proc' = "exited"
            /\ gw' = StopTask(gw)
       ELSE /\ pc' = "await_gw"
            /\ UNCHANGED <<proc, gw>>
    /\ UNCHANGED <<entry, seeded, api, accepted, served>>
    /\ UNCHANGED <<sessVars, lockVars, roleVars, shakeVars>>

\* main(): the second turn awaits the gateway task; after it main returns.
MainAwaitGw ==
    /\ pc = "await_gw"
    /\ gw \in {"err", "ok"}
    /\ pc' = IF gw = "err" THEN "panicked" ELSE "returned_ok"
    /\ proc' = "exited"
    /\ UNCHANGED <<entry, seeded, api, gw, accepted, served>>
    /\ UNCHANGED <<sessVars, lockVars, roleVars, shakeVars>>

StartJoinMutant ==
    /\ pc = "join"
    /\ api # "running" /\ gw # "running"
    /\ pc' = IF api = "ok" /\ gw = "ok" THEN "returned_ok" ELSE "returned_err"
    /\ UNCHANGED <<entry, seeded, api, gw, proc, accepted, served>>
    /\ UNCHANGED <<sessVars, lockVars, roleVars, shakeVars>>

\* Server::start: tokio::try_join!(gateway_handle, api_handle) is Err as soon
\* as one handle yields a JoinError and Ok once both tasks have returned; the
\* handle of the other task is dropped, which leaves that task running.
StartJoin ==
    /\ pc = "join"
    /\ \/ /\ api = "err" \/ gw = "err"
          /\ pc' = "returned_err"
       \/ /\ api = "ok" /\ gw = "ok"
          /\ pc' = "returned_ok"
    /\ UNCHANGED <<entry, seeded, api, gw, proc, accepted, served>>
    /\ UNCHANGED <<sessVars, lockVars, roleVars, shakeVars>>

\* The steps of main() and of Server::new / Server::start themselves.
ProgramStep ==
    \/ \E r \in SeedResults : Seed(r)
    \/ SpawnTasks
    \/ MainAwaitApi
    \/ MainAwaitGw
    \/ StartJoin

StartNext ==
    \/ \E e \in Entries : Launch(e)
    \/ \E r \in SeedResults : Seed(r)
    \/ SpawnTasks
    \/ \E x \in Services : ListenerFails(x)
    \/ \E x \in Services : ListenerEnds(x)
    \/ Accept
    \/ Serve
    \/ MainAwaitApi
    \/ MainAwaitGw
    \/ StartJoin

StartSpec == Init /\ [][StartNext]_vars

\* ---- the registry's locks ----

\* A task comes to a point where it needs one of the locks.
Want(t, op) ==
    /\ lpc[t] = "idle"
    /\ lpc' = [lpc EXCEPT ![t] = Wanting(op)]
    /\ UNCHANGED <<store_lock, sessVars, startVars, roleVars, shakeVars>>

\* connected_users.store.write(): waits until no task holds the store lock.
AcquireStoreWrite(t) ==
    /\ lpc[t] = "wantStoreW"
    /\ \A u \in Tasks : lpc[u] \notin {"inStoreW", "inStoreR"}
    /\ lpc' = [lpc EXCEPT ![t] = "inStoreW"]
    /\ UNCHANGED <<store_lock, sessVars, startVars, roleVars, shakeVars>>

\* store.read() of the same lock: waits while a writer holds the lock or is
\* waiting for it.
AcquireStoreRead(t) ==
    /\ lpc[t] = "wantStoreR"
    /\ \A u \in Tasks : lpc[u] \notin {"inStoreW", "wantStoreW"}
    /\ lpc' = [lpc EXCEPT ![t] = "inStoreR"]
    /\ UNCHANGED <<store_lock, sessVars, startVars, roleVars, shakeVars>>

\* connected_users.role_user_map.lock().await: a mutex, one holder at a time.
AcquireRole(t) ==
    /\ lpc[t] = "wantRole"
    /\ \A u \in Tasks : lpc[u] # "inRole"
    /\ lpc' = [lpc EXCEPT ![t] = "inRole"]
    /\ UNCHANGED <<store_lock, sessVars, startVars, roleVars, shakeVars>>

\* Variant of RemoveUsers that lets go of the store right after the first
\* removal.
RemoveUsersMutant(t) ==
    /\ lpc[t] = "inStoreW"
    /\ store_lock.users
    /\ store_lock' = [store_lock EXCEPT !.users = FALSE]
    /\ lpc' = [lpc EXCEPT ![t] = "idle"]
    /\ UNCHANGED <<sessVars, startVars, roleVars, shakeVars>>

\* store_lock.users.remove(&user_id) by the task that holds the write guard.
RemoveUsers(t) ==
    /\ lpc[t] = "inStoreW"
    /\ store_lock.users
    /\ store_lock' = [store_lock EXCEPT !.users = FALSE]
    /\ UNCHANGED <<lpc, sessVars, startVars, roleVars, shakeVars>>

\* store_lock.inboxes.remove(&user_id), the statement after it.
RemoveInboxes(t) ==
    /\ lpc[t] = "inStoreW"
    /\ ~store_lock.users
    /\ store_lock.inboxes
    /\ store_lock' = [store_lock EXCEPT !.inboxes = FALSE]
    /\ UNCHANGED <<lpc, sessVars, startVars, roleVars, shakeVars>>

\* The guard is dropped; the write guard after both removals (which find
\* nothing to remove when an earlier teardown took the entries).
Release(t) ==
    /\ lpc[t] \in Holding
    /\ lpc[t] = "inStoreW" => (~store_lock.users /\ ~store_lock.inboxes)
    /\ lpc' = [lpc EXCEPT ![t] = "idle"]
    /\ UNCHANGED <<store_lock, sessVars, startVars, roleVars, shakeVars>>

LockNext ==
    \/ \E t \in Tasks : \E op \in LockOps : Want(t, op)
    \/ \E t \in Tasks : AcquireStoreWrite(t)
    \/ \E t \in Tasks : AcquireStoreRead(t)
    \/ \E t \in Tasks : AcquireRole(t)
    \/ \E t \in Tasks : RemoveUsers(t)
    \/ \E t \in Tasks : RemoveInboxes(t)
    \/ \E t \in Tasks : Release(t)

LockSpec == Init /\ [][LockNext]_vars

\* ---- role-scoped publishing ----

\* publish(role, event): the event goes to the inbox of every user the index
\* holds for the role.
PublishRole(r) ==
    /\ rEv < MaxRoleEvents
    /\ rEv' = rEv + 1
    /\ rInbox' = [u \in RoleUsers |->
                    IF u \in InboxesForRole(r)
                    THEN Append(rInbox[u], rEv + 1)
                    ELSE rInbox[u]]
    /\ UNCHANGED roleIdx
    /\ UNCHANGED <<sessVars, startVars, lockVars, shakeVars>>

\* update_role_membership(role, user, added_or_removed).
UpdateRoleMembership(r, u, d) ==
    /\ roleIdx' = [roleIdx EXCEPT ![r] = ApplyDelta(@, u, d)]
    /\ UNCHANGED <<rInbox, rEv>>
    /\ UNCHANGED <<sessVars, startVars, lockVars, shakeVars>>

RoleNext ==
    \/ \E r \in Roles : PublishRole(r)
    \/ \E r \in Roles : \E u \in RoleUsers : \E d \in Deltas :
          UpdateRoleMembership(r, u, d)

RoleSpec == Init /\ [][RoleNext]_vars

\* ------------------------------------------------------------ specification

\* ------------------------------------------------------------ handshake

\* Connecting -> AwaitingIdentify: socket accepted, Hello sent.
HsAccept(c) ==
    /\ conn[c].st = "Connecting"
    /\ conn' = [conn EXCEPT ![c].st = "AwaitingIdentify"]
    /\ UNCHANGED <<sessVars, startVars, lockVars, roleVars>>

\* Variant of HsFirstFrame that lets a Heartbeat pass and goes on waiting
\* for the Identify.
HsFirstFrameMutant(c, f) ==
    /\ conn[c].st = "AwaitingIdentify"
    /\ IF f \in {"Identify", "Resume"}
       THEN conn' = [conn EXCEPT ![c].st = "Active",
                                 ![c].registered = TRUE,
                                 ![c].everRegistered = TRUE]
       ELSE conn' = [conn EXCEPT ![c].earlyHeartbeat = TRUE]
    /\ UNCHANGED <<sessVars, startVars, lockVars, roleVars>>

\* The first frame of a socket in AwaitingIdentify: a valid Identify/Resume
\* makes it Active and registers it; a Heartbeat is a handshake violation,
\* the socket is closed with that code and nothing is registered.
HsFirstFrame(c, f) ==
    /\ conn[c].st = "AwaitingIdentify"
    /\ IF f \in {"Identify", "Resume"}
       THEN conn' = [conn EXCEPT ![c].st = "Active",
                                 ![c].registered = TRUE,
                                 ![c].everRegistered = TRUE]
       ELSE conn' = [conn EXCEPT ![c].st = "Closing",
                                 ![c].close = HandshakeViolation,
                                 ![c].earlyHeartbeat = TRUE]
    /\ UNCHANGED <<sessVars, startVars, lockVars, roleVars>>

\* Active -> Closing: decode error, unexpected opcode or internal failure.
HsForceClose(c, code) ==
    /\ conn[c].st = "Active"
    /\ conn' = [conn EXCEPT ![c].st = "Closing", ![c].close = code]
    /\ UNCHANGED <<sessVars, startVars, lockVars, roleVars>>

\* Closing -> Closed: cancellation observed, registry entry removed.
HsClosed(c) ==
    /\ conn[c].st = "Closing"
    /\ conn' = [conn EXCEPT ![c].st = "Closed", ![c].registered = FALSE]
    /\ UNCHANGED <<sessVars, startVars, lockVars, roleVars>>

HandshakeNext ==
    \/ \E c \in Conns : HsAccept(c)
    \/ \E c \in Conns : \E f \in HandshakeFrames : HsFirstFrame(c, f)
    \/ \E c \in Conns : \E code \in ActiveCloseCodes : HsForceClose(c, code)
    \/ \E c \in Conns : HsClosed(c)

HandshakeSpec == Init /\ [][HandshakeNext]_vars

Next ==
    \/ \E s \in Sessions : Connect(s)
    \/ \E u \in Users : Publish(u)
    \/ \E s \in Sessions : GatewayStart(s)
    \/ \E s \in Sessions : GatewayKill(s)
    \/ \E s \in Faulty : GatewayRecv(s)
    \/ \E s \in Sessions : InboxKill(s)
    \/ \E s \in Sessions : InboxRecv(s)

Spec == Init /\ [][Next]_vars

\* tokio::select! picks among the ready branches at random: a branch that
\* stays ready is eventually taken.
FairSpec ==
    /\ Spec
    /\ \A s \in Sessions : WF_vars(GatewayKill(s)) /\ WF_vars(InboxKill(s))

\* ------------------------------------------------------------ properties

Running(s) == gt[s] = "loop"
Terminated(s) == gt[s] \in {"done", "panicked"}
Registered(s) == s \in users[Owner(s)]
SentOn(s, k) == {i \in DOMAIN closeSent[s] : closeSent[s][i].on = k}

\* C1: whatever path terminates an Active session, once its gateway_task has
\* ended the store holds no entry for the session and the removal ran
\* exactly once.
C1_RegistryClearedOnTermination ==
    \A s \in Sessions : Terminated(s) => (~Registered(s) /\ removals[s] = 1)

\* C2: when a user has two Active sessions and one of them is torn down, the
\* other one stays registered and its inbox stays resolvable for publishers.
C2_PeerSessionStaysRegistered ==
    \A s, t \in Sessions :
        (s # t /\ Owner(s) = Owner(t) /\ gt[s] = "done" /\ Running(t) /\ killN[t] = 0)
            => (Registered(t) /\ Owner(t) \in inboxes)

\* C3: a Heartbeat received while the heartbeat handler is unreachable closes
\* the session with code 4000 (internal error) and no other code.
C3_DeadHeartbeatClosesInternalError ==
    \A s \in Sessions : \A i \in SentOn(s, "Heartbeat") :
        closeSent[s][i].msg = [close |-> 4000]

\* C4: a frame that fails to decode makes the session send the matching close
\* code (4001 unexpected opcode, 4002 unexpected message, 4000 otherwise),
\* raise the cancellation signal, and end gateway_task before the frame can
\* reach the match on events.
C4_DecodeFailureCloses ==
    [][\A s \in Sessions :
        (Running(s) /\ Len(closeSent'[s]) = Len(closeSent[s]) + 1
                    /\ closeSent'[s][Len(closeSent'[s])].on \in DecodeErrKinds)
        => LET e == closeSent'[s][Len(closeSent'[s])] IN
           /\ e.on = "UnexpectedOpcode" => e.msg = [close |-> 4001]
           /\ e.on = "UnexpectedMessage" => e.msg = [close |-> 4002]
           /\ e.on \in {"OtherGatewayError", "OtherError"} => e.msg = [close |-> 4000]
           /\ killN'[s] = killN[s] + 1
           /\ gt'[s] = "panicked"]_vars

C4_Witness ==
    \E s \in Sessions : \E i \in SentOn(s, "UnexpectedOpcode") :
        gt[s] = "panicked" /\ killN[s] > 0

\* C5: a Dispatch frame from the client makes the session send a Close frame
\* with code 4002 and raise its cancellation signal.
C5_ClientDispatchCloses ==
    [][\A s \in Sessions :
        (Running(s) /\ Len(closeSent'[s]) = Len(closeSent[s]) + 1
                    /\ closeSent'[s][Len(closeSent'[s])].on = "Dispatch")
        => /\ closeSent'[s][Len(closeSent'[s])].msg = [close |-> 4002]
           /\ killN'[s] = killN[s] + 1]_vars

C5_Witness ==
    \E s \in Sessions : \E i \in SentOn(s, "Dispatch") : killN[s] > 0

\* C6: a step of one session's tasks (a fatal frame, a failed write, the
\* teardown that follows) leaves every other session as it was: still
\* registered if it was, its tasks where they were, its cancellation signal
\* not raised.
C6_FailureIsolated ==
    [][\A s \in Sessions :
        (GatewayRecv(s) \/ GatewayKill(s) \/ InboxRecv(s) \/ InboxKill(s))
        => \A t \in Sessions \ {s} :
            /\ Registered(t)' = Registered(t)
            /\ gt'[t] = gt[t]
            /\ pi'[t] = pi[t]
            /\ killN'[t] = killN[t]]_vars

\* C7: once the cancellation signal of a session is raised, gateway_task and
\* process_inbox of that session both end.  (The signal is only ever raised
\* for the sessions in Faulty.)
C7_CancelledTasksTerminate ==
    \A s \in Faulty :
        (killN[s] > 0) ~> (gt[s] \in {"done", "panicked"} /\ pi[s] \in {"done", "panicked"})

C7_Witness ==
    \E s \in Sessions : killN[s] > 0 /\ gt[s] = "done" /\ pi[s] = "done"

\* C8: after the cancellation signal of a session is raised, its inbound loop
\* handles no further frame and nothing more is handed to its socket.
C8_NothingAfterCancellation ==
    [][\A s \in Sessions :
        killN[s] > 0 =>
            /\ ~GatewayRecv(s)
            /\ closeSent'[s] = closeSent[s]
            /\ eventSent'[s] = eventSent[s]]_vars

\* C9: when the cancellation signal of a session was raised twice, the
\* session's entry has been removed from the store, by exactly one removal,
\* once its gateway_task has ended, and no kill_send.send(..).expect of
\* process_inbox failed.
C9_DoubleRaiseHarmless ==
    \A s \in Sessions :
        (killN[s] >= 2 /\ Terminated(s)) =>
            /\ removals[s] = 1
            /\ ~Registered(s)
            /\ pi[s] # "panicked"

\* C10: after a failed socket write process_inbox hands nothing more to the
\* socket: a failed write of an event is the last one.
C10_NoWriteAfterFailedWrite ==
    \A s \in Sessions : \A i, j \in DOMAIN eventSent[s] :
        ~eventSent[s][i].ok => j <= i

InboxStopped(s) == pi[s] \in {"done", "panicked"}
Increasing(q) == \A i, j \in DOMAIN q : i < j => q[i] < q[j]
EventIds(s) == [i \in DOMAIN eventSent[s] |-> eventSent[s][i].msg.event]

\* C11: a session whose process_inbox task has stopped does not stay
\* registered with its gateway_task in the loop unless it is being
\* terminated: the cancellation signal has been raised for it.
C11_InboxLossTerminatesSession ==
    \A s \in Sessions :
        (Running(s) /\ Registered(s) /\ InboxStopped(s)) => killN[s] > 0

\* C12: once process_inbox has met the overflow of its inbox (its recv()
\* answered Lagged and the task is past it), the session's cancellation
\* signal has been raised.
C12_OverflowRaisesCancellation ==
    \A s \in Sessions : (lagged[s] /\ pi[s] # "loop") => killN[s] > 0

C14_WrongStateFrameIsFatal ==
    [][nFrames' = nFrames + 1 =>
        \E s \in Sessions :
            \/ hbFwd'[s] # hbFwd[s]
            \/ /\ Len(closeSent'[s]) = Len(closeSent[s]) + 1
               /\ killN'[s] = killN[s] + 1]_vars

\* C17: heartbeats are forwarded in the order they arrive, none twice, and a
\* step that forwards one leaves the session as it was: gateway_task stays
\* in the loop, no Close frame is sent, the cancellation signal is not raised
\* and the registry is untouched.
C17_HeartbeatsForwardedInOrder ==
    /\ [](\A s \in Sessions : Increasing(hbFwd[s]))
    /\ [][\A s \in Sessions :
            hbFwd'[s] # hbFwd[s] =>
                /\ hbFwd'[s] = Append(hbFwd[s], nFrames')
                /\ Running(s) /\ gt'[s] = "loop"
                /\ UNCHANGED <<closeSent, killN, users, inboxes>>]_vars

C17_Witness == \E s \in Sessions : Len(hbFwd[s]) >= 2 /\ Running(s)

\* C19: publishing never waits: it can be done whatever the inboxes hold, and
\* a publish step puts the event at the tail of every subscribed session's
\* inbox, also when another session's inbox is full.
C19_PublishNeverBlocks ==
    /\ [](\A u \in inboxes : nEvents < MaxEvents => ENABLED Publish(u))
    /\ [][\A u \in Users : \A s \in Sessions :
            (nEvents' = nEvents + 1 /\ u \in inboxes /\ Subscribed(s, u)) =>
                /\ inboxQ'[s] # <<>>
                /\ inboxQ'[s][Len(inboxQ'[s])] = nEvents']_vars

C19_Witness ==
    \E s, t \in Sessions :
        /\ lagged[s] /\ ~lagged[t]
        /\ \E i \in DOMAIN eventSent[t] : eventSent[t][i].msg.event = MaxEvents

StartupFailed == seeded = "failed" \/ api = "err" \/ gw = "err"
Serving == api = "running" \/ gw = "running"

\* C15: once seeding or a listener has failed, startup does not come to rest
\* while a service is still running: either main() / Server::start still has
\* a step to take or nothing is serving.
C15_StartupFailureStopsEverything ==
    (StartupFailed /\ ~ENABLED ProgramStep) => ~Serving

\* C16: the gateway task exists, and a connection has been accepted, only
\* after init_role_user_map has succeeded.
C16_SeededBeforeGateway ==
    (gw # "none" \/ accepted > 0) => seeded = "ok"

C16_Witness == gw = "running" /\ accepted > 0 /\ seeded = "ok"

StoreWriterAround == \E u \in Tasks : lpc[u] \in {"inStoreW", "wantStoreW"}

\* C18: a lookup never waits for another lookup (a task that wants the
\* role_user_map gets it; a task that wants to read the store gets it when no
\* writer holds or awaits the store), and a store writer is alone in the
\* store.
C18_ReadsRunConcurrently ==
    /\ \A t \in Tasks : lpc[t] = "wantRole" => ENABLED AcquireRole(t)
    /\ \A t \in Tasks :
          (lpc[t] = "wantStoreR" /\ ~StoreWriterAround) => ENABLED AcquireStoreRead(t)
    /\ \A t, u \in Tasks :
          (t # u /\ lpc[t] = "inStoreW") => lpc[u] \notin {"inStoreW", "inStoreR"}

\* C20: a publish to a role puts the event in the inbox of exactly the users
\* the role's index holds at that moment, and a removal takes the user out of
\* the index, so later publishes pass that user by.
C20_RolePublishReachesMembers ==
    [][/\ rEv' = rEv + 1 =>
            \A r \in Roles : \A u \in RoleUsers :
                rInbox'[u] = IF u \in roleIdx[r]
                             THEN Append(rInbox[u], rEv')
                             ELSE rInbox[u]
       /\ \A r \in Roles : \A u \in RoleUsers :
            UpdateRoleMembership(r, u, "removed") => u \notin roleIdx'[r]]_vars

C20_Witness ==
    /\ roleIdx["R"] = {"B"}
    /\ rInbox["A"] = <<1>>
    /\ rInbox["B"] = <<1, 2>>
    /\ rInbox["C"] = <<>>

\* C21: a connection whose Heartbeat arrived before it had identified is
\* closed with the handshake-violation code, never becomes Active, and the
\* registry holds no entry for it then or later.
C21_EarlyHeartbeatIsFatal ==
    \A c \in Conns :
        conn[c].earlyHeartbeat =>
            /\ conn[c].st \in {"Closing", "Closed"}
            /\ conn[c].close = HandshakeViolation
            /\ ~conn[c].registered
            /\ ~conn[c].everRegistered

C21_Witness ==
    \E c, d \in Conns :
        /\ conn[c].earlyHeartbeat /\ conn[c].st = "Closed"
        /\ conn[d].st = "Active" /\ conn[d].registered

\* C22: Server::start returns Err as soon as one of the two tasks has failed,
\* whatever the other one is doing; it has returned Err only after a failure
\* and Ok only after both tasks returned Ok, so never while both are running.
C22_StartJoinsBothTasks ==
    /\ (pc = "join" /\ (api = "err" \/ gw = "err")) => ENABLED StartJoin
    /\ pc = "returned_err" => (api = "err" \/ gw = "err")
    /\ (entry = "server" /\ pc = "returned_ok") => (api = "ok" /\ gw = "ok")
    /\ (entry = "server" /\ pc \in {"returned_ok", "returned_err"})
          => ~(api = "running" /\ gw = "running")

C22_Witness ==
    /\ entry = "server"
    /\ pc = "returned_err"
    /\ gw = "err"
    /\ api = "running"

\* C23: process_inbox of a session is started once, by the step in which
\* gateway_task enters its loop, and never again; only that task, while it
\* runs, takes events out of the session's inbox and hands events to the
\* session's socket, and what it hands over is the event it took.
C23_OneInboxProcessor ==
    [][\A s \in Sessions :
        /\ (gt[s] = "start" /\ gt'[s] = "loop") => (pi[s] = "none" /\ pi'[s] = "loop")
        /\ (pi'[s] = "loop" /\ pi[s] # "loop") => (gt[s] = "start" /\ gt'[s] = "loop")
        /\ eventSent'[s] # eventSent[s] =>
              /\ pi[s] = "loop"
              /\ inboxQ[s] # <<>>
              /\ eventSent'[s] = Append(eventSent[s], eventSent'[s][Len(eventSent'[s])])
              /\ eventSent'[s][Len(eventSent'[s])].msg = [event |-> Head(inboxQ[s])]
        /\ (inboxQ'[s] # inboxQ[s] /\ nEvents' = nEvents)
              => /\ pi[s] = "loop"
                 /\ eventSent'[s] # eventSent[s] \/ pi'[s] # "loop"]_vars

C23_Witness ==
    \E s \in Sessions : Running(s) /\ pi[s] = "loop" /\ Len(eventSent[s]) >= 1

\* C24: no step of gateway_task, unwrap_event or process_inbox lowers a
\* session's last_sequence_number, a successful dequeue-and-send included.
C24_SequenceNeverDecreases ==
    [][\A s \in Sessions : last_sequence_number'[s] >= last_sequence_number[s]]_vars

C24_Witness ==
    \E s \in Sessions :
        /\ \E i \in DOMAIN eventSent[s] : eventSent[s][i].ok
        /\ nFrames >= 1
        /\ last_sequence_number[s] >= 0

\* C25: an event published to a user reaches every session of the user that
\* is registered and not cancelled: the publish step puts it at the tail of
\* the inbox process_inbox reads, from the moment of registration on.
C25_EventsSinceRegistrationDelivered ==
    [][\A s \in Sessions :
        (nEvents' = nEvents + 1 /\ Registered(s) /\ killN[s] = 0 /\ ~InboxStopped(s))
            => /\ inboxQ'[s] # <<>>
               /\ inboxQ'[s][Len(inboxQ'[s])] = nEvents']_vars

\* C26: a session's socket is handed at most one Close frame.
C26_AtMostOneClose == \A s \in Sessions : Len(closeSent[s]) <= 1

C28_TeardownInOneCriticalSection ==
    /\ \A t \in Tasks : lpc[t] = "inStoreR" => store_lock.users = store_lock.inboxes
    /\ store_lock.users # store_lock.inboxes => \E t \in Tasks : lpc[t] = "inStoreW"

C28_Witness ==
    /\ ~store_lock.users
    /\ ~store_lock.inboxes
    /\ \E t \in Tasks : lpc[t] = "inStoreR"
====
